---- MODULE Spec2Model ----
(***************************************************************************)
(* Blackjack table of src/app.py: the rules engine BlackjackGame and the   *)
(* turn handling of BlackjackWindow (hit / stand / reset buttons, dealer   *)
(* turn, results dialog).  A card is modelled by its pydealer value string *)
(* (card.value); suits are read only to find an image file.                *)
(***************************************************************************)
EXTENDS Integers, Sequences, FiniteSets, TLC

VARIABLES
    num_players,           \* BlackjackWindow.num_players / BlackjackGame.num_players
    num_decks,             \* BlackjackGame.num_decks
    deck,                  \* BlackjackGame.deck: how many cards of each value are left
    rot,                   \* what deck.shuffle() produced: -1 any order, else an offset
    pool,                  \* the card values on top of the shoe when rot = -1
    dealt,                 \* the cards removed from the deck since it was built, in order
    player_hands,          \* BlackjackGame.player_hands
    dealer_hand,           \* BlackjackGame.dealer_hand
    current_player_index,  \* BlackjackWindow.current_player_index
    show_dealer_cards,     \* BlackjackWindow.show_dealer_cards
    results,               \* the lines of the "Results" dialog while it is open
    dealer_calls,          \* game.hit(dealer_hand) calls of the running dealer turn
    pc,                    \* where the window is: "deal", "check", "player", "dealer",
                           \* "results";
                           \* "call" / "return" / "bust_return" around the
                           \* calls of the engine made on one hand
    hand_arg,              \* the hand a single engine call is given
    value_ret,             \* what calculate_hand_value returned for it
    bust_ret               \* what is_bust returned for it

vars == <<num_players, num_decks, deck, rot, pool, dealt, player_hands, dealer_hand,
          current_player_index, show_dealer_cards, results, dealer_calls, pc,
          hand_arg, value_ret, bust_ret>>

(***************************************************************************)
(* Cards.                                                                  *)
(***************************************************************************)
\* pydealer's card values, as the strings calculate_hand_value reads.
RankSeq == <<"2", "3", "4", "5", "6", "7", "8", "9", "10",
             "Jack", "Queen", "King", "Ace">>

Ranks == {RankSeq[i] : i \in 1..Len(RankSeq)}

\* Cards of one value in one pydealer.Deck (one per suit).
SuitsPerDeck == 4

\* num_decks of BlackjackWindow's games.
WindowDecks == 2

\* num_players of the window the program opens.
MainPlayers == 3

\* num_players of a window built with the default of BlackjackWindow.__init__.
DefaultPlayers == 1

\* The shuffles explored when rot = -1 put cards of one of these sets of
\* values on top of the shoe, in any order.
Pools == {{"Ace", "King"}, {"6", "King"}, {"Ace", "6"}}

\* Hits a player takes in a round, at most, in the rounds explored.
MaxHits == 1

\* Cards of the hands single engine calls are tried on, at most.
MaxHandLen == 4

\* Saturation of the dealer-loop iteration counter.
MaxLoop == 10

\* str.isdigit() on a card value.
IsDigit(v) == v \in {RankSeq[i] : i \in 1..9}

\* int(card.value) for a digit string.
IntOf(v) == 1 + CHOOSE i \in 1..9 : RankSeq[i] = v

(***************************************************************************)
(* BlackjackGame: hand valuation.                                          *)
(***************************************************************************)
\* Mutant of AddCard: an Ace counts 11 only as the first card of the hand.
AddCard_AceFirst(acc, v) ==
    IF IsDigit(v) THEN [value |-> acc.value + IntOf(v), aces |-> acc.aces]
    ELSE IF v \in {"Jack", "Queen", "King"}
         THEN [value |-> acc.value + 10, aces |-> acc.aces]
    ELSE IF v = "Ace"
         THEN IF acc.value = 0
              THEN [value |-> acc.value + 11, aces |-> acc.aces + 1]
              ELSE [value |-> acc.value + 1, aces |-> acc.aces]
    ELSE acc

\* One pass of the for loop of calculate_hand_value over a card: acc holds the
\* locals value and aces.
AddCard(acc, v) ==
    IF IsDigit(v) THEN [acc EXCEPT !.value = @ + IntOf(v)]
    ELSE IF v \in {"Jack", "Queen", "King"} THEN [acc EXCEPT !.value = @ + 10]
    ELSE IF v = "Ace" THEN [acc EXCEPT !.value = @ + 11, !.aces = @ + 1]
    ELSE acc

\* The for loop of calculate_hand_value, first card first.
RECURSIVE CountCards(_, _)
CountCards(acc, hand) ==
    IF hand = <<>> THEN acc
    ELSE CountCards(AddCard(acc, Head(hand)), Tail(hand))

\* Mutant of SoftenAces: an if where the code has a while.
SoftenAces_Once(value, aces) ==
    IF value > 21 /\ aces > 0 THEN value - 10 ELSE value

\* The while loop of calculate_hand_value.
RECURSIVE SoftenAces(_, _)
SoftenAces(value, aces) ==
    IF value > 21 /\ aces > 0 THEN SoftenAces(value - 10, aces - 1) ELSE value

calculate_hand_value(hand) ==
    LET acc == CountCards([value |-> 0, aces |-> 0], hand)
    IN  SoftenAces(acc.value, acc.aces)

\* Mutant of is_bust: 21 is bust too.
is_bust_From21(hand) == calculate_hand_value(hand) >= 21

is_bust(hand) == calculate_hand_value(hand) > 21

\* Mutant of dealer_should_hit: the dealer hits up to 20.
dealer_should_hit_To21 == calculate_hand_value(dealer_hand) < 21

\* Mutant of dealer_should_hit: the dealer also hits on 17.
dealer_should_hit_On17 == calculate_hand_value(dealer_hand) <= 17

dealer_should_hit == calculate_hand_value(dealer_hand) < 17

(***************************************************************************)
(* BlackjackGame: the shoe.                                                *)
(***************************************************************************)
\* Mutant of FullDeck: the decks are never added to the stack.
FullDeck_Empty(nd) == [r \in Ranks |-> 0]

\* The stack __init__ fills: nd decks, each holding every value once per suit.
FullDeck(nd) == [r \in Ranks |-> SuitsPerDeck * nd]

RECURSIVE SumUpTo(_, _)
SumUpTo(d, i) == IF i = 0 THEN 0 ELSE d[RankSeq[i]] + SumUpTo(d, i - 1)

\* deck.size
ShoeSize(d) == SumUpTo(d, Len(RankSeq))

\* The values deck.shuffle() can have left on top of a shoe holding d after n
\* cards were dealt: with r >= 0 the shuffle is the deck order rotated by r
\* (every value once per 13 cards); with r = -1 any order whose top cards are
\* of the values in pool.  Empty when the shoe is empty.
TopCards(d, r, n) ==
    IF ShoeSize(d) = 0 THEN {}
    ELSE IF r >= 0 THEN {RankSeq[((r + n) % Len(RankSeq)) + 1]}
    ELSE IF \E c \in pool : d[c] > 0 THEN {c \in pool : d[c] > 0}
    ELSE {c \in Ranks : d[c] > 0}

\* Stack.deal(n): the card sequences it can return.  It returns the cards
\* that are left, without raising, when fewer than n are.
RECURSIVE DealAny(_, _, _, _)
DealAny(d, r, n0, n) ==
    IF n = 0 \/ TopCards(d, r, n0) = {} THEN {<<>>}
    ELSE UNION {{<<c>> \o s : s \in DealAny([d EXCEPT ![c] = @ - 1], r, n0 + 1, n - 1)}
                : c \in TopCards(d, r, n0)}

Deal(d, r, n0, n) ==
    IF r >= 0
    THEN LET m == IF n < ShoeSize(d) THEN n ELSE ShoeSize(d)
         IN  {[j \in 1..m |-> RankSeq[((r + n0 + j - 1) % Len(RankSeq)) + 1]]}
    ELSE DealAny(d, r, n0, n)

\* Mutant of Without: the dealt cards stay in the deck.
Without_Kept(d, cards) == d

\* The deck once the cards of a deal have left it.
Without(d, cards) ==
    [r \in Ranks |-> d[r] - Cardinality({j \in 1..Len(cards) : cards[j] = r})]

\* Mutant of AddTo: the new cards go in front of the hand.
AddTo_Front(hand, cards) == cards \o hand

\* Mutant of AddTo: the dealt cards replace the hand.
AddTo_Replace(hand, cards) == cards

\* Stack.add: the cards go on top of the hand.
AddTo(hand, cards) == hand \o cards

\* What deck.shuffle() can produce for a new game, given the family of
\* shuffles the behaviour explores.
Shuffle(r) == IF r < 0 THEN {-1} ELSE 0..(Len(RankSeq) - 1)

\* The cards a..b of a deal that may have come up short.
Slice(s, a, b) == SubSeq(s, a, IF b < Len(s) THEN b ELSE Len(s))

\* Mutant of deal_initial_hands: the dealer is served first.
deal_initial_hands_DealerFirst(all) ==
    [players |-> [i \in 1..num_players |->
                     AddTo(player_hands[i], Slice(all, 2 * i + 1, 2 * i + 2))],
     dealer  |-> AddTo(dealer_hand, Slice(all, 1, 2))]

\* deal_initial_hands, given the cards its deals return one after the other:
\* two to each player in index order, then two to the dealer.
deal_initial_hands(all) ==
    [players |-> [i \in 1..num_players |->
                     AddTo(player_hands[i], Slice(all, 2 * i - 1, 2 * i))],
     dealer  |-> AddTo(dealer_hand,
                       Slice(all, 2 * num_players + 1, 2 * num_players + 2))]

(***************************************************************************)
(* BlackjackWindow.                                                        *)
(***************************************************************************)
\* The Blackjack check of reset_game from player i on (0-based), the cursor
\* being at cpi: a 21 is skipped only when it is the current player's.
RECURSIVE BlackjackCheck(_, _, _)
BlackjackCheck(hands, i, cpi) ==
    IF i >= Len(hands) THEN cpi
    ELSE IF calculate_hand_value(hands[i + 1]) = 21 /\ i = cpi
         THEN BlackjackCheck(hands, i + 1, cpi + 1)
         ELSE BlackjackCheck(hands, i + 1, cpi)

\* Mutant of Outcome: the dealer's bust is tested before the player's.
Outcome_DealerBustFirst(hand, dealer_value) ==
    LET player_value == calculate_hand_value(hand)
    IN  IF dealer_value > 21 \/ player_value > dealer_value THEN "Won"
        ELSE IF is_bust(hand) THEN "Busted"
        ELSE IF player_value = dealer_value THEN "Push"
        ELSE "Lost"

\* The outcome show_results gives a hand against the dealer's value.
Outcome(hand, dealer_value) ==
    LET player_value == calculate_hand_value(hand)
    IN  IF is_bust(hand) THEN "Busted"
        ELSE IF dealer_value > 21 \/ player_value > dealer_value THEN "Won"
        ELSE IF player_value = dealer_value THEN "Push"
        ELSE "Lost"

\* The list show_results builds: one line per hand, "Player <n>: <outcome>!".
show_results(hands, dealer) ==
    LET dealer_value == calculate_hand_value(dealer)
    IN  [i \in 1..Len(hands) |->
            [player |-> i, outcome |-> Outcome(hands[i], dealer_value)]]

\* Mutant of NewGame: the hands of the old game are kept.
NewGame_HandsKept ==
    /\ UNCHANGED <<hand_arg, value_ret, bust_ret>>
    /\ num_decks' = WindowDecks
    /\ deck' = FullDeck(WindowDecks)
    /\ rot' \in Shuffle(rot)
    /\ dealt' = <<>>
    /\ results' = <<>>
    /\ pc' = "deal"
    /\ UNCHANGED <<num_players, pool, current_player_index, player_hands,
                   dealer_hand, show_dealer_cards, dealer_calls>>

\* self.game = BlackjackGame(num_decks=2, num_players=self.num_players):
\* a full shuffled shoe and empty hands.
NewGame ==
    /\ UNCHANGED <<hand_arg, value_ret, bust_ret>>
    /\ num_decks' = WindowDecks
    /\ deck' = FullDeck(WindowDecks)
    /\ rot' \in Shuffle(rot)
    /\ dealt' = <<>>
    /\ player_hands' = [i \in 1..num_players |-> <<>>]
    /\ dealer_hand' = <<>>
    /\ results' = <<>>
    /\ pc' = "deal"
    /\ UNCHANGED <<num_players, pool, current_player_index,
                   show_dealer_cards, dealer_calls>>

\* Mutant of TurnAt: next_player moves the cursor by two.
TurnAt_ByTwo(cpi) ==
    /\ current_player_index' = cpi + 1
    /\ IF cpi + 1 >= num_players
       THEN /\ show_dealer_cards' = TRUE
            /\ dealer_calls' = 0
            /\ pc' = "dealer"
       ELSE /\ pc' = "player"
            /\ UNCHANGED <<show_dealer_cards, dealer_calls>>

\* Mutant of TurnAt: next_player never starts the dealer's turn.
TurnAt_NoDealer(cpi) ==
    /\ current_player_index' = cpi
    /\ pc' = "player"
    /\ UNCHANGED <<show_dealer_cards, dealer_calls>>

\* Mutant of TurnAt: next_player tests > where the code tests >=.
TurnAt_OffByOne(cpi) ==
    /\ current_player_index' = cpi
    /\ IF cpi > num_players
       THEN /\ show_dealer_cards' = TRUE
            /\ dealer_calls' = 0
            /\ pc' = "dealer"
       ELSE /\ pc' = "player"
            /\ UNCHANGED <<show_dealer_cards, dealer_calls>>

\* The cursor moved to cpi by next_player: the next player waits for a button,
\* or play_dealer_turn starts.
TurnAt(cpi) ==
    /\ current_player_index' = cpi
    /\ IF cpi >= num_players
       THEN /\ show_dealer_cards' = TRUE
            /\ dealer_calls' = 0
            /\ pc' = "dealer"
       ELSE /\ pc' = "player"
            /\ UNCHANGED <<show_dealer_cards, dealer_calls>>

\* Mutant of DealInitial: reset_game leaves the reveal flag as it was.
DealInitial_FlagKept ==
    /\ UNCHANGED <<hand_arg, value_ret, bust_ret>>
    /\ pc = "deal"
    /\ \E all \in Deal(deck, rot, Len(dealt), 2 * (num_players + 1)) :
         LET h == deal_initial_hands(all)
         IN  /\ player_hands' = h.players
             /\ dealer_hand' = h.dealer
             /\ deck' = Without(deck, all)
             /\ dealt' = dealt \o all
    /\ current_player_index' = 0
    /\ show_dealer_cards' = show_dealer_cards
    /\ dealer_calls' = 0
    /\ pc' = "check"
    /\ UNCHANGED <<num_players, num_decks, rot, pool, results>>

\* reset_game after the new game is built: the initial deal, the cursor and
\* the reveal flag reset, and the table drawn (update_ui).
DealInitial ==
    /\ UNCHANGED <<hand_arg, value_ret, bust_ret>>
    /\ pc = "deal"
    /\ \E all \in Deal(deck, rot, Len(dealt), 2 * (num_players + 1)) :
         LET h == deal_initial_hands(all)
         IN  /\ player_hands' = h.players
             /\ dealer_hand' = h.dealer
             /\ deck' = Without(deck, all)
             /\ dealt' = dealt \o all
    /\ current_player_index' = 0
    /\ show_dealer_cards' = FALSE
    /\ dealer_calls' = 0
    /\ pc' = "check"
    /\ UNCHANGED <<num_players, num_decks, rot, pool, results>>

\* The Blackjack check that ends reset_game: its next_player calls move the
\* cursor, and start the dealer's turn when they move it past the last player.
CheckBlackjack ==
    /\ UNCHANGED <<hand_arg, value_ret, bust_ret>>
    /\ pc = "check"
    /\ TurnAt(BlackjackCheck(player_hands, 0, current_player_index))
    /\ UNCHANGED <<num_players, num_decks, deck, rot, pool, dealt, player_hands,
                   dealer_hand, results>>

\* Mutant of Hit: every hit ends the player's turn.
Hit_AlwaysAdvance ==
    /\ UNCHANGED <<hand_arg, value_ret, bust_ret>>
    /\ pc = "player"
    /\ \E cards \in Deal(deck, rot, Len(dealt), 1) :
         /\ player_hands' =
               [player_hands EXCEPT ![current_player_index + 1] = AddTo(@, cards)]
         /\ deck' = Without(deck, cards)
         /\ dealt' = dealt \o cards
    /\ TurnAt(current_player_index + 1)
    /\ UNCHANGED <<num_players, num_decks, rot, pool, dealer_hand, results>>

\* The Hit button.
Hit ==
    /\ UNCHANGED <<hand_arg, value_ret, bust_ret>>
    /\ pc = "player"
    /\ \E cards \in Deal(deck, rot, Len(dealt), 1) :
         LET hand       == AddTo(player_hands[current_player_index + 1], cards)
             hand_value == calculate_hand_value(hand)
         IN  /\ player_hands' =
                   [player_hands EXCEPT ![current_player_index + 1] = hand]
             /\ deck' = Without(deck, cards)
             /\ dealt' = dealt \o cards
             /\ IF hand_value = 21 \/ is_bust(hand)
                THEN TurnAt(current_player_index + 1)
                ELSE UNCHANGED <<current_player_index, show_dealer_cards,
                                 dealer_calls, pc>>
    /\ UNCHANGED <<num_players, num_decks, rot, pool, dealer_hand, results>>

\* The Hit button in the rounds explored on the table of MainPlayers: pressed
\* at most MaxHits times by a player.
HitWithinBound ==
    /\ pc = "player"
    /\ Len(player_hands[current_player_index + 1]) < 2 + MaxHits
    /\ Hit

\* The Stand button.
Stand ==
    /\ UNCHANGED <<hand_arg, value_ret, bust_ret>>
    /\ pc = "player"
    /\ TurnAt(current_player_index + 1)
    /\ UNCHANGED <<num_players, num_decks, deck, rot, pool, dealt, player_hands,
                   dealer_hand, results>>

\* The Reset button.
ResetClicked ==
    /\ pc = "player"
    /\ NewGame

\* One pass of the while loop of play_dealer_turn.
DealerHit ==
    /\ UNCHANGED <<hand_arg, value_ret, bust_ret>>
    /\ pc = "dealer"
    /\ dealer_should_hit
    /\ \E cards \in Deal(deck, rot, Len(dealt), 1) :
         /\ dealer_hand' = AddTo(dealer_hand, cards)
         /\ deck' = Without(deck, cards)
         /\ dealt' = dealt \o cards
    /\ dealer_calls' = IF dealer_calls < MaxLoop THEN dealer_calls + 1 ELSE MaxLoop
    /\ UNCHANGED <<num_players, num_decks, rot, pool, player_hands,
                   current_player_index, show_dealer_cards, results, pc>>

\* Mutant of ShowResults: reset_game is called with no outcome computed.
ShowResults_Skipped ==
    /\ pc = "dealer"
    /\ ~dealer_should_hit
    /\ NewGame

\* play_dealer_turn once its loop has ended: show_results opens its dialog.
ShowResults ==
    /\ UNCHANGED <<hand_arg, value_ret, bust_ret>>
    /\ pc = "dealer"
    /\ ~dealer_should_hit
    /\ results' = show_results(player_hands, dealer_hand)
    /\ pc' = "results"
    /\ UNCHANGED <<num_players, num_decks, deck, rot, pool, dealt, player_hands,
                   dealer_hand, current_player_index, show_dealer_cards,
                   dealer_calls>>

\* The Results dialog is closed: show_results calls reset_game.
CloseResults ==
    /\ pc = "results"
    /\ NewGame

Next ==
    \/ DealInitial
    \/ CheckBlackjack
    \/ HitWithinBound
    \/ Stand
    \/ ResetClicked
    \/ DealerHit
    \/ ShowResults
    \/ CloseResults

\* BlackjackWindow(num_players=3), inside its first reset_game with the game
\* built and no card dealt yet.
Init ==
    /\ num_players = MainPlayers
    /\ num_decks = WindowDecks
    /\ deck = FullDeck(WindowDecks)
    /\ rot = -1
    /\ pool \in Pools
    /\ dealt = <<>>
    /\ player_hands = [i \in 1..MainPlayers |-> <<>>]
    /\ dealer_hand = <<>>
    /\ current_player_index = 0
    /\ show_dealer_cards = FALSE
    /\ results = <<>>
    /\ dealer_calls = 0
    /\ pc = "deal"
    /\ hand_arg = <<>>
    /\ value_ret = 0
    /\ bust_ret = FALSE

Spec == Init /\ [][Next]_vars

(***************************************************************************)
(* A table so large that its initial deal empties the shoe:                *)
(* BlackjackWindow(num_players=51) deals all 2 * 52 cards.  The shuffles   *)
(* explored are the rotations of the deck order.                           *)
(***************************************************************************)
CrowdPlayers == (Len(RankSeq) * SuitsPerDeck * WindowDecks) \div 2 - 1

InitCrowd ==
    /\ num_players = CrowdPlayers
    /\ num_decks = WindowDecks
    /\ deck = FullDeck(WindowDecks)
    /\ rot \in Shuffle(0)
    /\ pool = {}
    /\ dealt = <<>>
    /\ player_hands = [i \in 1..CrowdPlayers |-> <<>>]
    /\ dealer_hand = <<>>
    /\ current_player_index = 0
    /\ show_dealer_cards = FALSE
    /\ results = <<>>
    /\ dealer_calls = 0
    /\ pc = "deal"
    /\ hand_arg = <<>>
    /\ value_ret = 0
    /\ bust_ret = FALSE

SpecCrowd == InitCrowd /\ [][Next]_vars

(***************************************************************************)
(* The rounds of BlackjackWindow(), a table of one player, with any number *)
(* of hits and the Reset button left alone.  Every handler runs to its end *)
(* once called, and the player whose turn it is presses Hit or Stand.      *)
(***************************************************************************)
InitLive ==
    /\ num_players = DefaultPlayers
    /\ num_decks = WindowDecks
    /\ deck = FullDeck(WindowDecks)
    /\ rot = -1
    /\ pool \in Pools
    /\ dealt = <<>>
    /\ player_hands = [i \in 1..DefaultPlayers |-> <<>>]
    /\ dealer_hand = <<>>
    /\ current_player_index = 0
    /\ show_dealer_cards = FALSE
    /\ results = <<>>
    /\ dealer_calls = 0
    /\ pc = "deal"
    /\ hand_arg = <<>>
    /\ value_ret = 0
    /\ bust_ret = FALSE

NextLive ==
    \/ DealInitial
    \/ CheckBlackjack
    \/ Hit
    \/ Stand
    \/ DealerHit
    \/ ShowResults
    \/ CloseResults

SpecLive ==
    /\ InitLive
    /\ [][NextLive]_vars
    /\ WF_vars(DealInitial)
    /\ WF_vars(CheckBlackjack)
    /\ WF_vars(Hit \/ Stand)
    /\ WF_vars(DealerHit)
    /\ WF_vars(ShowResults)

(***************************************************************************)
(* Calls of calculate_hand_value and is_bust on a hand of up to MaxHandLen  *)
(* cards of any values, and on the hand after a hit.                       *)
(***************************************************************************)
Hands == UNION {[1..k -> Ranks] : k \in 0..MaxHandLen}

InitValue ==
    /\ num_players = MainPlayers
    /\ num_decks = WindowDecks
    /\ deck = FullDeck(WindowDecks)
    /\ rot = -1
    /\ pool = {}
    /\ dealt = <<>>
    /\ player_hands = [i \in 1..MainPlayers |-> <<>>]
    /\ dealer_hand = <<>>
    /\ current_player_index = 0
    /\ show_dealer_cards = FALSE
    /\ results = <<>>
    /\ dealer_calls = 0
    /\ pc = "call"
    /\ hand_arg \in Hands
    /\ value_ret = 0
    /\ bust_ret = FALSE

\* value_ret = game.calculate_hand_value(hand_arg)
Evaluate ==
    /\ pc = "call"
    /\ value_ret' = calculate_hand_value(hand_arg)
    /\ pc' = "return"
    /\ UNCHANGED <<num_players, num_decks, deck, rot, pool, dealt, player_hands,
                   dealer_hand, current_player_index, show_dealer_cards,
                   results, dealer_calls, hand_arg, bust_ret>>

\* bust_ret = game.is_bust(hand_arg)
IsBust ==
    /\ pc = "return"
    /\ bust_ret' = is_bust(hand_arg)
    /\ pc' = "bust_return"
    /\ UNCHANGED <<num_players, num_decks, deck, rot, pool, dealt, player_hands,
                   dealer_hand, current_player_index, show_dealer_cards,
                   results, dealer_calls, hand_arg, value_ret>>

\* hand.add of game.hit on the hand, whatever card the shoe gave; the results
\* of the two calls made before it are kept.
HitHand ==
    /\ pc = "bust_return"
    /\ Len(hand_arg) < MaxHandLen
    /\ \E c \in Ranks : hand_arg' = AddTo(hand_arg, <<c>>)
    /\ pc' = "call"
    /\ UNCHANGED <<num_players, num_decks, deck, rot, pool, dealt, player_hands,
                   dealer_hand, current_player_index, show_dealer_cards,
                   results, dealer_calls, value_ret, bust_ret>>

NextValue ==
    \/ Evaluate
    \/ IsBust
    \/ HitHand

SpecValue == InitValue /\ [][NextValue]_vars

(***************************************************************************)
(* Properties.                                                             *)
(***************************************************************************)
\* The two cards deal_initial_hands gave player i (1-based).
InitialHand(i) == SubSeq(player_hands[i], 1, 2)

\* Player i (1-based) is waiting for the Hit or Stand button.
Awaiting(i) == pc = "player" /\ current_player_index = i - 1

\* C1: every player whose initial two cards are worth 21 is skipped: that
\* player never waits for a hit/stand action and never gets a third card.
C1_BlackjackNeverActs ==
    \A i \in 1..Len(player_hands) :
        (Len(player_hands[i]) >= 2 /\ calculate_hand_value(InitialHand(i)) = 21)
            => (~Awaiting(i) /\ Len(player_hands[i]) = 2)

\* C2: from Player(i), a stand, or a hit that leaves the hand bust or at 21,
\* moves the turn to Player(i+1) when i+1 < N and to the dealer's turn (cards
\* revealed) otherwise.
C2_TurnAdvances ==
    [][(pc = "player" /\ pc' # "deal") =>
          LET i      == current_player_index
              before == player_hands[i + 1]
              after  == player_hands'[i + 1]
          IN  (after = before \/ calculate_hand_value(after) >= 21) =>
                 /\ current_player_index' = i + 1
                 /\ IF i + 1 < num_players
                    THEN pc' = "player"
                    ELSE pc' = "dealer" /\ show_dealer_cards']_vars

\* C2 witness: the first player hit to 21 and the last player hit and went
\* bust, which started the dealer's turn.
C2_Witness ==
    /\ pc = "dealer"
    /\ Len(player_hands[1]) = 3
    /\ calculate_hand_value(player_hands[1]) = 21
    /\ Len(player_hands[num_players]) = 3
    /\ calculate_hand_value(player_hands[num_players]) > 21

\* C3: the Results dialog holds one line per player, in player order, and the
\* line is Busted above 21 (whatever the dealer has), else Won against a bust
\* or lower dealer, else Push on equal values, else Lost.
C3_Outcomes ==
    pc = "results" =>
        /\ Len(results) = num_players
        /\ \A i \in 1..num_players :
             LET pv == calculate_hand_value(player_hands[i])
                 dv == calculate_hand_value(dealer_hand)
                 o  == results[i].outcome
             IN  /\ results[i].player = i
                 /\ pv > 21 => o = "Busted"
                 /\ (pv <= 21 /\ (dv > 21 \/ pv > dv)) => o = "Won"
                 /\ (pv <= 21 /\ dv <= 21 /\ pv = dv) => o = "Push"
                 /\ (pv <= 21 /\ dv <= 21 /\ pv < dv) => o = "Lost"

\* C3 witness: results with the dealer bust, a bust player and a winner.
C3_Witness ==
    /\ pc = "results"
    /\ calculate_hand_value(dealer_hand) > 21
    /\ \E i, j \in 1..num_players :
         /\ calculate_hand_value(player_hands[i]) > 21
         /\ results[i].outcome = "Busted"
         /\ results[j].outcome = "Won"

\* Blackjack's card points with every Ace counted as 1.
Points(v) ==
    IF v = "Ace" THEN 1
    ELSE IF v \in {"Jack", "Queen", "King"} THEN 10
    ELSE CHOOSE n \in 2..10 : RankSeq[n - 1] = v

\* The total of a hand with every Ace counted as 1.
RECURSIVE HardTotal(_)
HardTotal(hand) ==
    IF hand = <<>> THEN 0 ELSE Points(Head(hand)) + HardTotal(Tail(hand))

NumAces(hand) == Cardinality({j \in 1..Len(hand) : hand[j] = "Ace"})

\* The totals of a hand over all ways of counting each Ace as 1 or 11.
AceTotals(hand) == {HardTotal(hand) + 10 * k : k \in 0..NumAces(hand)}

\* The standard Blackjack value: the largest total not above 21, or else the
\* total with every Ace counted as 1.
StandardValue(hand) ==
    IF \E t \in AceTotals(hand) : t <= 21
    THEN CHOOSE t \in AceTotals(hand) :
            t <= 21 /\ \A u \in AceTotals(hand) : u <= 21 => u <= t
    ELSE HardTotal(hand)

\* C4: calculate_hand_value returns the standard Blackjack value of every
\* hand; {Ace} = 11, {Ace, Ace} = 12, {King, Queen} = 20, {Ace, King} = 21.
C4_StandardValue ==
    pc = "return" =>
        /\ value_ret = StandardValue(hand_arg)
        /\ hand_arg = <<"Ace">> => value_ret = 11
        /\ hand_arg = <<"Ace", "Ace">> => value_ret = 12
        /\ hand_arg = <<"King", "Queen">> => value_ret = 20
        /\ hand_arg = <<"Ace", "King">> => value_ret = 21

\* C4 witness: a hand of two Aces and a King was valued 12, both Aces demoted.
C4_Witness ==
    pc = "return" /\ hand_arg = <<"Ace", "Ace", "King">> /\ value_ret = 12

\* C5: in its turn the dealer gets a card only at a value below 17, stops as
\* soon as the value is 17 or more, and outcomes are computed only with the
\* dealer at 17 or more.
C5_DealerPolicy ==
    [][/\ (pc = "dealer" /\ dealer_hand' # dealer_hand) =>
             /\ calculate_hand_value(dealer_hand) < 17
             /\ Len(dealer_hand') = Len(dealer_hand) + 1
       /\ (pc = "dealer" /\ calculate_hand_value(dealer_hand) >= 17) =>
             (pc' = "results" /\ dealer_hand' = dealer_hand)
       /\ pc' = "results" => calculate_hand_value(dealer_hand') >= 17]_vars

\* C5 witness: the dealer stood on a soft 17 and the outcomes were computed.
C5_Witness == pc = "results" /\ dealer_hand = <<"Ace", "6">>

C7_DealerLoopBounded ==
    pc = "dealer" => dealer_calls <= ShoeSize(deck) + (Len(dealer_hand) - 2)

\* How many cards of value r the hands hold.
InHand(hand, r) == Cardinality({j \in 1..Len(hand) : hand[j] = r})

RECURSIVE InHands(_, _, _)
InHands(hands, n, r) ==
    IF n = 0 THEN 0 ELSE InHand(hands[n], r) + InHands(hands, n - 1, r)

\* C8: a shoe of d decks starts with 52*d cards; after k cards were dealt it
\* holds 52*d - k, and every card is either in the shoe or in exactly one
\* hand: shoe plus hands always hold the 4*d cards of every value.
C8_CardConservation ==
    /\ pc = "deal" => ShoeSize(deck) = 52 * num_decks
    /\ ShoeSize(deck) = 52 * num_decks - Len(dealt)
    /\ \A r \in Ranks :
         /\ deck[r] >= 0
         /\ InHands(player_hands, num_players, r) + InHand(dealer_hand, r)
               = InHand(dealt, r)
         /\ deck[r] + InHand(dealt, r) = 4 * num_decks

\* C8 witness: a resolved round in which players and dealer were hit.
C8_Witness ==
    /\ pc = "results"
    /\ Len(dealer_hand) > 2
    /\ \E i \in 1..num_players : Len(player_hands[i]) > 2

C10_InitialDeal ==
    [][pc = "deal" /\ pc' # "deal" =>
          /\ dealt = <<>>
          /\ Len(dealt') = 2 * (num_players + 1)
          /\ \A i \in 1..num_players :
               player_hands'[i] = <<dealt'[2 * i - 1], dealt'[2 * i]>>
          /\ dealer_hand' = <<dealt'[2 * num_players + 1],
                              dealt'[2 * num_players + 2]>>]_vars

\* C10 witness: right after the initial deal, the dealer's cards differing
\* from the first player's.
C10_Witness ==
    /\ pc = "player"
    /\ Len(dealt) = 2 * (num_players + 1)
    /\ Len(player_hands[1]) = 2
    /\ Len(dealer_hand) = 2
    /\ player_hands[1][1] # dealer_hand[1]

\* A hand that only got cards appended at its end.
Extends(after, before) ==
    /\ Len(after) >= Len(before)
    /\ SubSeq(after, 1, Len(before)) = before

C12_CursorRange ==
    /\ [](/\ current_player_index \in 0..num_players
          /\ current_player_index = num_players =>
                pc \in {"dealer", "results", "deal"}
          /\ pc = "player" =>
                /\ current_player_index \in 0..(num_players - 1)
                /\ Len(player_hands) = num_players
                /\ Len(player_hands[current_player_index + 1]) >= 2)
    /\ [][(pc' = "deal" /\ pc # "deal" /\ current_player_index' = num_players)
             => pc = "results"]_vars

\* C12 witness: the last player waits for an action after an earlier player
\* was hit.
C12_Witness ==
    /\ pc = "player"
    /\ current_player_index = num_players - 1
    /\ Len(player_hands[1]) = 3

\* C13: the reveal flag is false when reset_game has started a round and in
\* every state in which a player is awaiting a hit/stand action; it becomes
\* true only as the dealer's turn begins, all players' turns over; and the
\* dealer's value counts both initial cards while the flag is false.
C13_HiddenUntilDealerTurn ==
    /\ [](pc \in {"check", "player"} =>
             /\ ~show_dealer_cards
             /\ Len(dealer_hand) = 2
             /\ calculate_hand_value(dealer_hand) =
                   StandardValue(<<dealt[2 * num_players + 1],
                                   dealt[2 * num_players + 2]>>))
    /\ [][/\ (pc = "deal" /\ pc' # "deal") => ~show_dealer_cards'
          /\ (show_dealer_cards' /\ ~show_dealer_cards) =>
                /\ pc' = "dealer"
                /\ current_player_index' = num_players
                /\ Len(dealer_hand') = 2]_vars

\* C13 witness: the last player waits, the flag false, while the dealer holds
\* a hidden 21.
C13_Witness ==
    /\ pc = "player"
    /\ current_player_index = num_players - 1
    /\ ~show_dealer_cards
    /\ dealer_hand = <<"King", "Ace">>

\* C14: closing the Results dialog discards the round for a newly built engine
\* with the same deck and player counts, a full shoe of 52*num_decks cards
\* and empty hands; reset_game then deals only the initial hands from it, 2
\* cards each, and sets the cursor to 0 and the reveal flag to false; the
\* hands of the round hold only cards dealt from its shoe.
C14_FullReset ==
    /\ [][(pc = "results" /\ pc' # "results") =>
             /\ pc' = "deal"
             /\ num_decks' = num_decks
             /\ num_players' = num_players
             /\ dealt' = <<>>
             /\ deck' = [r \in Ranks |-> 4 * num_decks']
             /\ ShoeSize(deck') = 52 * num_decks'
             /\ player_hands' = [i \in 1..num_players |-> <<>>]
             /\ dealer_hand' = <<>>
             /\ results' = <<>>]_vars
    /\ [](pc = "check" =>
             /\ current_player_index = 0
             /\ ~show_dealer_cards
             /\ Len(dealt) = 2 * (num_players + 1)
             /\ ShoeSize(deck) = 52 * num_decks - 2 * (num_players + 1)
             /\ Len(player_hands) = num_players
             /\ \A i \in 1..num_players : Len(player_hands[i]) = 2
             /\ Len(dealer_hand) = 2)
    /\ [](pc \in {"check", "player", "dealer", "results"} =>
             \A r \in Ranks :
                InHands(player_hands, num_players, r) + InHand(dealer_hand, r)
                   = 4 * num_decks - deck[r])

\* C14 witness: reset_game after a resolution, the new engine built with its
\* full shoe and the cursor and the flag still those of the resolved round.
C14_Witness ==
    /\ pc = "deal"
    /\ current_player_index = num_players
    /\ show_dealer_cards
    /\ dealt = <<>>
    /\ ShoeSize(deck) = 52 * num_decks
    /\ dealer_hand = <<>>

\* C15: is_bust(hand) is true exactly when calculate_hand_value(hand) > 21,
\* and a bust hand stays bust whatever card is added to it.
C15_BustMonotonic ==
    /\ pc = "bust_return" =>
          /\ bust_ret <=> (value_ret > 21)
          /\ bust_ret <=> (StandardValue(hand_arg) > 21)
          /\ bust_ret => \A c \in Ranks : is_bust(Append(hand_arg, c))
    /\ (pc = "call" /\ bust_ret) =>
          /\ calculate_hand_value(hand_arg) > 21
          /\ is_bust(hand_arg)

\* C15 witness: a hand found bust at 22 was hit with an Ace.
C15_Witness ==
    /\ pc = "call"
    /\ bust_ret
    /\ value_ret = 22
    /\ hand_arg = <<"King", "Queen", "2", "Ace">>

\* The hand with the cards at positions i and j exchanged.
Swap(hand, i, j) ==
    [k \in 1..Len(hand) |->
        IF k = i THEN hand[j] ELSE IF k = j THEN hand[i] ELSE hand[k]]

\* The cards of a hand in the order of RankSeq, from value n on: the same
\* sequence for every permutation of the hand.
RECURSIVE SortedFrom(_, _)
SortedFrom(hand, n) ==
    IF n > Len(RankSeq) THEN <<>>
    ELSE [k \in 1..InHand(hand, RankSeq[n]) |-> RankSeq[n]]
            \o SortedFrom(hand, n + 1)

\* C16: calculate_hand_value returns the same value for every permutation of
\* a hand (for the hand with two neighbouring cards exchanged, such exchanges
\* generating all permutations, and for the hand in sorted order, which all
\* permutations share), and the call changes neither the hand nor any other
\* state.
C16_OrderIndependent ==
    /\ [](pc = "return" =>
             /\ \A i \in 1..(Len(hand_arg) - 1) :
                   calculate_hand_value(Swap(hand_arg, i, i + 1)) = value_ret
             /\ calculate_hand_value(SortedFrom(hand_arg, 1)) = value_ret)
    /\ [][(pc = "call" /\ pc' = "return") =>
             /\ hand_arg' = hand_arg
             /\ UNCHANGED <<num_players, num_decks, deck, rot, pool, dealt,
                            player_hands, dealer_hand, current_player_index,
                            show_dealer_cards, results, dealer_calls,
                            bust_ret>>]_vars

\* C16 witness: a hand with an Ace before and an Ace after a King was valued.
C16_Witness ==
    /\ pc = "return"
    /\ hand_arg = <<"5", "Ace", "King", "Ace">>
    /\ value_ret = 17

\* C17: with the acting player always eventually pressing Hit or Stand and
\* the shoe not exhausted, every round reaches the dealer's turn and then its
\* resolution; a player's hit raises the hand's total with every Ace counted
\* as 1, and at a value of 21 or more the turn advances.
C17_RoundResolves ==
    /\ (pc \in {"deal", "check", "player"}) ~> (pc = "dealer")
    /\ (pc = "dealer") ~> (pc = "results")
    /\ [][(pc = "player" /\ player_hands' # player_hands /\ pc' # "deal") =>
             LET i == current_player_index + 1
             IN  /\ HardTotal(player_hands'[i]) > HardTotal(player_hands[i])
                 /\ calculate_hand_value(player_hands'[i]) >= 21 =>
                       current_player_index' = current_player_index + 1]_vars

\* C17 witness: a round resolved after the player was hit three times and the
\* dealer once.
C17_Witness ==
    /\ pc = "results"
    /\ num_players = DefaultPlayers
    /\ Len(player_hands[1]) >= 5
    /\ Len(dealer_hand) >= 3

\* The players at the head of the table whose hands are worth 21, as many as
\* the Blackjack check of reset_game skips, one next_player call each.
RECURSIVE LeadingBlackjacks(_, _)
LeadingBlackjacks(hands, k) ==
    IF k < Len(hands) /\ calculate_hand_value(hands[k + 1]) = 21
    THEN LeadingBlackjacks(hands, k + 1)
    ELSE k

\* C18: within a round current_player_index never decreases and grows by 1
\* per advance (a hit or a stand makes at most one, the Blackjack check one
\* per player it skips); only the hand of the player at the cursor gets a
\* card, by a hit; the hands before the cursor are frozen, the hands after it
\* are the 2 initial cards, and so is the dealer's until all players are done.
C18_TurnOrder ==
    /\ [](pc \in {"check", "player", "dealer", "results"} =>
             /\ \A j \in 1..num_players :
                   j - 1 > current_player_index =>
                      player_hands[j] = <<dealt[2 * j - 1], dealt[2 * j]>>
             /\ current_player_index < num_players =>
                   dealer_hand = <<dealt[2 * num_players + 1],
                                   dealt[2 * num_players + 2]>>)
    /\ [][(pc # "deal" /\ pc' # "deal") =>
             /\ current_player_index' >= current_player_index
             /\ pc = "player" =>
                   current_player_index' \in
                      {current_player_index, current_player_index + 1}
             /\ pc = "check" =>
                   current_player_index' = LeadingBlackjacks(player_hands, 0)
             /\ pc \in {"dealer", "results"} =>
                   current_player_index' = current_player_index
             /\ \A j \in 1..num_players :
                   /\ j - 1 < current_player_index =>
                         player_hands'[j] = player_hands[j]
                   /\ player_hands'[j] # player_hands[j] =>
                         /\ pc = "player"
                         /\ j - 1 = current_player_index
                         /\ Len(player_hands'[j]) = Len(player_hands[j]) + 1
                         /\ dealer_hand' = dealer_hand]_vars

\* C18 witness: the second player was hit and is still to act, the first
\* player's hand frozen at 3 cards and the third's still the initial 2.
C18_Witness ==
    /\ pc = "player"
    /\ current_player_index = 1
    /\ Len(player_hands[1]) = 3
    /\ Len(player_hands[2]) = 3
    /\ Len(player_hands[3]) = 2
    /\ Len(dealer_hand) = 2

\* C19: a hit that leaves the current player's hand below 21 leaves the turn
\* with that player: the cursor and the reveal flag are unchanged, the dealer
\* gets no card and no outcome is computed.
C19_HitBelow21Stays ==
    [][(/\ pc = "player"
        /\ pc' # "deal"
        /\ player_hands' # player_hands
        /\ calculate_hand_value(player_hands'[current_player_index + 1]) < 21) =>
          /\ current_player_index' = current_player_index
          /\ show_dealer_cards' = show_dealer_cards
          /\ ~show_dealer_cards'
          /\ pc' = "player"
          /\ dealer_hand' = dealer_hand
          /\ dealer_calls' = dealer_calls
          /\ results' = <<>>]_vars

\* C19 witness: the second player, not skipped with King and Ace, was hit with
\* an Ace to a value of 12 and is still the one to act.
C19_Witness ==
    /\ pc = "player"
    /\ current_player_index = 1
    /\ player_hands[2] = <<"King", "Ace", "Ace">>

\* C20: a player awaiting a hit/stand action holds a hand worth at most 21, a
\* bust hand belongs to a player whose turn is over, a hit is applied only to
\* a player's hand worth at most 21 and no player's hand is worth more than
\* 30; the dealer is hit at 16 or less only, so the dealer's hand never
\* exceeds 26.
C20_NoBustWaits ==
    /\ [](/\ pc = "player" =>
                LET hand == player_hands[current_player_index + 1]
                IN  /\ calculate_hand_value(hand) <= 21
                    /\ \A c \in Ranks :
                          calculate_hand_value(Append(hand, c)) <= 30
          /\ pc \in {"check", "player", "dealer", "results"} =>
                /\ \A j \in 1..num_players :
                      LET v == calculate_hand_value(player_hands[j])
                      IN  v <= 30 /\ (v > 21 => j - 1 < current_player_index)
                /\ LET dv == calculate_hand_value(dealer_hand)
                   IN  /\ dv <= 26
                       /\ dv > 21 => pc \in {"dealer", "results"}
                       /\ (pc = "dealer" /\ dv < 17) =>
                             \A c \in Ranks :
                                calculate_hand_value(Append(dealer_hand, c)) <= 26)
    /\ [][(pc # "deal" /\ pc' # "deal") =>
             /\ \A j \in 1..num_players :
                   player_hands'[j] # player_hands[j] =>
                      calculate_hand_value(player_hands[j]) <= 21
             /\ dealer_hand' # dealer_hand =>
                   calculate_hand_value(dealer_hand) <= 16]_vars

\* C20 witness: a round resolved with a player at 30 and the dealer at 26.
C20_Witness ==
    /\ pc = "results"
    /\ calculate_hand_value(dealer_hand) = 26
    /\ \E j \in 1..num_players : calculate_hand_value(player_hands[j]) = 30

====
